---- MODULE Spec2Model ----
(***************************************************************************)
(* Model of the authentication core of task-manager-gtd-kanban:            *)
(*   backend/auth/index.py   register / login / refresh over PostgreSQL    *)
(*   backend/tasks/index.py  verify_jwt                                    *)
(*                                                                         *)
(* Conventions                                                             *)
(*  - Text that the code inspects character by character (e-mail           *)
(*    addresses) is a tuple of one-character strings.                      *)
(*  - Time is counted in ticks of 1/TicksPerSecond second; a Python float  *)
(*    timestamp of s seconds is the tick count s * TicksPerSecond.         *)
(*  - SHA-256 and PBKDF2 are free constructors (collision free); base64    *)
(*    keeps the number of '=' characters that rstrip('=') removed.         *)
(*  - Every request runs on its own connection; a transaction sees the     *)
(*    committed rows plus its own writes (READ COMMITTED), and an UPDATE   *)
(*    waits for the row lock of another open transaction.                  *)
(***************************************************************************)
EXTENDS Integers, Sequences, FiniteSets, TLC

(* ------------------------------ bounds -------------------------------- *)
MaxRequests == 2       \* requests started in one behaviour
MaxTicks == 1          \* clock advances in one behaviour of Spec
MaxFailures == 1       \* storage exceptions injected in one behaviour
MaxCodecTicks == 4     \* clock advances in one behaviour of SpecCodec
TicksPerSecond == 4    \* clock resolution

(* ------------------------- program constants -------------------------- *)
MinPasswordLen == 6
AccessTtlMinutes == 60
RefreshTtlDays == 30
Pbkdf2Iterations == 100000
PadAdded == 2          \* verify_jwt decodes payload + '=='
SecondsPerMinute == 60
SecondsPerDay == 86400

AUTH_JWT_SECRET == "default-secret-key"
TASKS_JWT_SECRET == "default-secret-key"

(* ---------------------------- str helpers ----------------------------- *)
UpperCase == <<"A","B","C","D","E","F","G","H","I","J","K","L","M",
               "N","O","P","Q","R","S","T","U","V","W","X","Y","Z">>
LowerCase == <<"a","b","c","d","e","f","g","h","i","j","k","l","m",
               "n","o","p","q","r","s","t","u","v","w","x","y","z">>
Letters == {UpperCase[i] : i \in 1..26} \cup {LowerCase[i] : i \in 1..26}
DigitChars == {"0","1","2","3","4","5","6","7","8","9"}
Whitespace == {" ", "\t", "\n", "\r"}

\* str.lower() on one character
LowerChar(c) ==
    IF \E i \in 1..26 : UpperCase[i] = c
    THEN LowerCase[CHOOSE i \in 1..26 : UpperCase[i] = c]
    ELSE c

\* str.lower()
Lower(s) == [i \in 1..Len(s) |-> LowerChar(s[i])]

\* str.strip(): drop leading and trailing whitespace
Strip(s) ==
    LET keep == {i \in 1..Len(s) : s[i] \notin Whitespace}
    IN  IF keep = {} THEN <<>>
        ELSE LET lo == CHOOSE i \in keep : \A j \in keep : i <= j
                 hi == CHOOSE i \in keep : \A j \in keep : j <= i
             IN  SubSeq(s, lo, hi)

\* a normalisation that trims but keeps the case
NormalizeEmailNoLower(raw) == Strip(raw)

\* body_data.get('email', '').strip().lower()
NormalizeEmail(raw) == Lower(Strip(raw))

\* re.match(r'^[a-zA-Z0-9._%+-]+@[a-zA-Z0-9.-]+\.[a-zA-Z]{2,}$', email)
\* ('$' also matches just before one trailing newline)
LocalChars == Letters \cup DigitChars \cup {".", "_", "%", "+", "-"}
DomainChars == Letters \cup DigitChars \cup {".", "-"}
validate_email(email) ==
    LET n == Len(email)
        ends == {n} \cup (IF n > 0 /\ email[n] = "\n" THEN {n - 1} ELSE {})
    IN  \E at \in 1..n, dot \in 1..n, end \in ends :
            /\ at > 1
            /\ \A i \in 1..(at - 1) : email[i] \in LocalChars
            /\ email[at] = "@"
            /\ dot > at + 1
            /\ \A i \in (at + 1)..(dot - 1) : email[i] \in DomainChars
            /\ email[dot] = "."
            /\ end - dot >= 2
            /\ \A i \in (dot + 1)..end : email[i] \in Letters

(* ------------------------- Credential hasher -------------------------- *)
\* hashlib.pbkdf2_hmac('sha256', password, salt, 100000), base64 encoded
Pbkdf2(password, salt) == <<"pbkdf2_sha256", password, salt, Pbkdf2Iterations>>

\* f"{salt}${b64(pwd_hash)}", kept as the parts that split('$') returns
hash_password(password, salt) == <<salt, Pbkdf2(password, salt)>>

verify_password(password, hash_str) ==
    IF Len(hash_str) # 2 THEN FALSE
    ELSE Pbkdf2(password, hash_str[1]) = hash_str[2]

(* ----------------------------- Token codec ---------------------------- *)
\* number of characters of str(n)
RECURSIVE DecLen(_)
DecLen(n) == IF n < 0 THEN 1 + DecLen(-n)
             ELSE IF n < 10 THEN 1 ELSE 1 + DecLen(n \div 10)

\* int(x) of the rational num/den: truncation toward zero
IntTrunc(num, den) == IF num >= 0 THEN num \div den ELSE -((-num) \div den)

\* len(json.dumps({"user_id": .., "email": .., "exp": ..}))
PayloadJsonLen(p) == 35 + DecLen(p.user_id) + Len(p.email) + DecLen(p.exp)
\* len(json.dumps({"alg": "HS256", "typ": "JWT"}))
HeaderJsonLen == 30
\* len(sha256(..).digest())
DigestLen == 32

\* base64.urlsafe_b64encode(data).decode().rstrip('='): the data and the
\* number of '=' characters removed
B64UrlStripped(data, nbytes) == [data |-> data, stripped |-> (3 - (nbytes % 3)) % 3]

\* base64.urlsafe_b64decode(segment + '=' * added) succeeds when the padding
\* is at least what the length needs (excess padding is ignored)
B64UrlDecodes(segment, added) == added >= segment.stripped

JwtHeaderSegment == B64UrlStripped([alg |-> "HS256", typ |-> "JWT"], HeaderJsonLen)

\* hashlib.sha256(f"{header}.{payload}{secret}".encode()).digest(), encoded
SignatureSegment(header, payload, secret) ==
    B64UrlStripped(<<"sha256", header, payload, secret>>, DigestLen)

PayloadSegment(claims) == B64UrlStripped(claims, PayloadJsonLen(claims))

\* create_jwt at clock reading t (ticks); the token is its three segments
create_jwt(user_id, email, expires_minutes, t) ==
    LET header == JwtHeaderSegment
        payload_data ==
            [user_id |-> user_id,
             email   |-> email,
             exp     |-> IntTrunc(t + expires_minutes * SecondsPerMinute * TicksPerSecond,
                                  TicksPerSecond)]
        payload == PayloadSegment(payload_data)
    IN  <<header, payload, SignatureSegment(header, payload, AUTH_JWT_SECRET)>>

NoClaims == [user_id |-> 0, email |-> <<>>, exp |-> 0]
\* verify_jwt returns None
Rejected(decoded) == [ok |-> FALSE, claims |-> NoClaims, decoded |-> decoded]

\* exp < datetime.utcnow().timestamp()
Expired(exp, t) == exp * TicksPerSecond < t

\* a verify_jwt that skips the signature comparison
SignatureMismatchSkipped(signature, expected_signature) == FALSE

\* signature != expected_signature
SignatureMismatch(signature, expected_signature) == signature # expected_signature

\* verify_jwt at clock reading t; decoded tells whether the payload segment
\* was base64/JSON decoded on the way
verify_jwt(token, t) ==
    IF Len(token) # 3 THEN Rejected(FALSE)
    ELSE LET header == token[1]
             payload == token[2]
             signature == token[3]
             expected_signature == SignatureSegment(header, payload, TASKS_JWT_SECRET)
         IN  IF SignatureMismatch(signature, expected_signature) THEN Rejected(FALSE)
             ELSE IF ~B64UrlDecodes(payload, PadAdded) THEN Rejected(FALSE)
             ELSE IF Expired(payload.data.exp, t) THEN Rejected(TRUE)
             ELSE [ok |-> TRUE, claims |-> payload.data, decoded |-> TRUE]

(* ------------------------------ state --------------------------------- *)
VARIABLES
    users,            \* committed rows of relation users
    refresh_tokens,   \* committed rows of relation refresh_tokens
    pc,               \* where each request handler stands
    req,              \* the request each handler serves
    loc,              \* the handler's local variables
    tx,               \* uncommitted writes of the handler's connection
    out,              \* the last response returned, with its request
    now,              \* the clock, in ticks
    ticks,            \* clock advances so far
    nreq,             \* requests started so far
    nfail,            \* storage exceptions so far
    google_enabled,   \* AUTH_GOOGLE_ENABLED
    db_configured,    \* psycopg2 importable and DATABASE_URL set
    returned,         \* history: token pairs returned by register and login
    jwt_pc, jwt_in, jwt_token, jwt_out,  \* the codec exercised on its own
    t_pc,             \* where the tasks handler stands
    t_req,            \* the request the tasks handler serves
    t_user_id,        \* its local user_id
    t_conn,           \* whether it has opened a database connection
    t_sql,            \* the statements it has passed to cursor.execute
    t_resp            \* its response

authVars == <<users, refresh_tokens, pc, req, loc, tx, out, ticks, nreq, nfail,
              google_enabled, db_configured, returned>>
codecVars == <<jwt_pc, jwt_in, jwt_token, jwt_out>>
tasksVars == <<t_pc, t_req, t_user_id, t_conn, t_sql, t_resp>>
vars == <<authVars, now, codecVars, tasksVars>>

\* the connections (requests in flight at once)
Procs == {"c1", "c2"}

(* ------------------------------ inputs -------------------------------- *)
AliceEmail == <<"a","@","b",".","c","o">>
AliceEmailRaw == <<" ","A","@","B",".","c","o">>
BadEmail == <<"a","@","b">>
FedEmail == <<"f","@","b",".","c","o">>
BobEmailRaw == <<"B","o","b","@","b",".","c","o","\t">>
RegisterEmails == {AliceEmail, BobEmailRaw, BadEmail}
LoginEmails == {AliceEmailRaw, BobEmailRaw, FedEmail}
Passwords == {"secret1", "wrong"}
FullNames == {"Ann"}
Salts == {"5a17"}
UnknownToken == 0

\* a row of users whose password_hash is NULL (federated-only account)
NoHash == <<>>
FedUser == [id |-> 1, email |-> FedEmail, password_hash |-> NoHash, full_name |-> "Fed"]
\* the row an earlier register {" A@B.co", "secret1", "Ann"} left
AliceUser == [id |-> 2, email |-> NormalizeEmail(AliceEmailRaw),
              password_hash |-> hash_password("secret1", "5a17"), full_name |-> "Ann"]
AliceToken == 1

NoUser == [id |-> 0, email |-> <<>>, password_hash |-> NoHash, full_name |-> ""]
NoToken == <<>>
NoReq == [action |-> "", email |-> <<>>, password |-> "", fullName |-> "",
          refreshToken |-> UnknownToken]
NoLoc == [user |-> NoUser, access_token |-> NoToken, refresh_token |-> UnknownToken]
NoTx == [users_ins |-> {}, rt_ins |-> {}, rt_upd |-> {}]
NoResp == [status |-> 0, error |-> "", user |-> NoUser, accessToken |-> NoToken,
           refreshToken |-> UnknownToken]

(* --------------------------- storage helpers -------------------------- *)
RefreshTtlTicks == RefreshTtlDays * SecondsPerDay * TicksPerSecond

\* cursor.fetchone() of "SELECT .. FROM users WHERE email = %s"
SelectUserByEmail(email) == {u \in users : u.email = email}

\* the SELECT without "rt.revoked = false"
SelectLiveTokenAnyRevoked(token) ==
    {r \in refresh_tokens :
        /\ r.token = token
        /\ r.expires_at > now
        /\ \E u \in users : u.id = r.user_id}

\* the SELECT without "rt.expires_at > NOW()"
SelectLiveTokenAnyExpiry(token) ==
    {r \in refresh_tokens :
        /\ r.token = token
        /\ r.revoked = FALSE
        /\ \E u \in users : u.id = r.user_id}

\* "... WHERE rt.token = %s AND rt.revoked = false AND rt.expires_at > NOW()"
\* joined to the owning user
SelectLiveToken(token) ==
    {r \in refresh_tokens :
        /\ r.token = token
        /\ r.revoked = FALSE
        /\ r.expires_at > now
        /\ \E u \in users : u.id = r.user_id}

\* "INSERT INTO refresh_tokens (user_id, token, expires_at)": revoked defaults
\* to false; redeems is history only (the token whose redemption inserted it)
NewTokenRow(user_id, token, redeems) ==
    [token |-> token, user_id |-> user_id, expires_at |-> now + RefreshTtlTicks,
     revoked |-> FALSE, redeems |-> redeems]

\* a commit that deletes the redeemed row instead of flagging it
CommitTokensDeleting(t) ==
    {r \in refresh_tokens : r.token \notin t.rt_upd} \cup t.rt_ins

\* conn.commit(): the connection's writes become the committed rows
CommitTokens(t) ==
    {IF r.token \in t.rt_upd THEN [r EXCEPT !.revoked = TRUE] ELSE r :
        r \in refresh_tokens} \cup t.rt_ins

Max(S) == CHOOSE x \in S : \A y \in S : y <= x

\* secrets.token_urlsafe(32): a string no row and no request in flight holds
create_refresh_token ==
    1 + Max({r.token : r \in refresh_tokens} \cup {loc[p].refresh_token : p \in Procs}
            \cup {UnknownToken})

\* the id the sequence behind users.id gives the next row
NextUserId ==
    1 + Max({u.id : u \in users} \cup UNION {{u.id : u \in tx[p].users_ins} : p \in Procs})

\* the row lock an UPDATE needs is free
RowLockFree(p, token) == \A q \in Procs \ {p} : token \notin tx[q].rt_upd

ErrorResp(status, error) == [NoResp EXCEPT !.status = status, !.error = error]

\* str(e) of the exceptions the store raises
ConnectionLost == "server closed the connection unexpectedly"
DuplicateKey == "duplicate key value violates unique constraint \"users_email_key\""
ExceptionTexts == {ConnectionLost, DuplicateKey}

\* except Exception as e: 500 with json.dumps({'error': str(e)})
ExceptionResp(e) == ErrorResp(500, e)

TokenResp(status, user, access_token, refresh_token) ==
    [status |-> status, error |-> "", user |-> user, accessToken |-> access_token,
     refreshToken |-> refresh_token]

\* the handler is entered: one more request, on a fresh connection
Enter(p) ==
    /\ pc[p] = "idle"
    /\ nreq < MaxRequests
    /\ nreq' = nreq + 1

\* the handler returns on its first branch
EnterReturn(p, r, response) ==
    /\ out' = [req |-> r, resp |-> response]
    /\ UNCHANGED <<pc, req, loc>>

\* the handler goes on to its next statement
EnterProceed(p, r, locals, next) ==
    /\ req' = [req EXCEPT ![p] = r]
    /\ loc' = [loc EXCEPT ![p] = locals]
    /\ pc' = [pc EXCEPT ![p] = next]
    /\ UNCHANGED out

\* the handler returns later on; its connection is gone with it
Return(p, response) ==
    /\ out' = [req |-> req[p], resp |-> response]
    /\ pc' = [pc EXCEPT ![p] = "idle"]
    /\ req' = [req EXCEPT ![p] = NoReq]
    /\ loc' = [loc EXCEPT ![p] = NoLoc]
    /\ tx' = [tx EXCEPT ![p] = NoTx]

(* ------------------------ handler: entry checks ------------------------ *)
\* get_db_connection() returned None: 500 before the action is looked at
NoConnection(p, action) ==
    /\ Enter(p)
    /\ ~db_configured
    /\ EnterReturn(p, [NoReq EXCEPT !.action = action],
                   ErrorResp(500, "Database connection failed"))
    /\ UNCHANGED <<users, refresh_tokens, tx, ticks, nfail,
                   google_enabled, db_configured, returned, now, codecVars, tasksVars>>

\* action == 'google_login' and AUTH_GOOGLE_ENABLED
GoogleLogin(p) ==
    /\ Enter(p)
    /\ db_configured
    /\ google_enabled
    /\ EnterReturn(p, [NoReq EXCEPT !.action = "google_login"],
                   ErrorResp(501, "Google OAuth not implemented yet"))
    /\ UNCHANGED <<users, refresh_tokens, tx, ticks, nfail,
                   google_enabled, db_configured, returned, now, codecVars, tasksVars>>

\* the final else: an unknown action, or google_login with the flag off
InvalidAction(p, action) ==
    /\ Enter(p)
    /\ db_configured
    /\ action = "google_login" => ~google_enabled
    /\ EnterReturn(p, [NoReq EXCEPT !.action = action],
                   ErrorResp(400, "Invalid action or Google OAuth disabled"))
    /\ UNCHANGED <<users, refresh_tokens, tx, ticks, nfail,
                   google_enabled, db_configured, returned, now, codecVars, tasksVars>>

(* --------------------------- handler: register ------------------------ *)
\* validation, then the uniqueness SELECT
Register(p, raw, password, full_name) ==
    LET email == NormalizeEmail(raw)
        r == [NoReq EXCEPT !.action = "register", !.email = raw,
                           !.password = password, !.fullName = full_name]
    IN  /\ Enter(p)
        /\ db_configured
        /\ IF ~validate_email(email)
           THEN EnterReturn(p, r, ErrorResp(400, "Invalid email format"))
           ELSE IF Len(password) < MinPasswordLen
           THEN EnterReturn(p, r, ErrorResp(400, "Password must be at least 6 characters"))
           ELSE IF SelectUserByEmail(email) # {}
           THEN EnterReturn(p, r, ErrorResp(409, "Email already registered"))
           ELSE EnterProceed(p, r, NoLoc, "reg_insert_user")
        /\ UNCHANGED <<users, refresh_tokens, tx, ticks, nfail,
                       google_enabled, db_configured, returned, now,
                       codecVars, tasksVars>>

\* the unique index on users.email: an INSERT waits for an open transaction
\* that inserted the same email
EmailInsertPending(p, email) ==
    \E q \in Procs \ {p} : \E u \in tx[q].users_ins : u.email = email

\* hash_password, then INSERT INTO users .. RETURNING id, email, full_name
RegInsertUser(p, salt) ==
    LET email == NormalizeEmail(req[p].email)
        user == [id |-> NextUserId, email |-> email,
                 password_hash |-> hash_password(req[p].password, salt),
                 full_name |-> req[p].fullName]
    IN  /\ pc[p] = "reg_insert_user"
        /\ ~EmailInsertPending(p, email)
        /\ IF SelectUserByEmail(email) # {}
           THEN \* the unique index refuses the row: the except branch answers
                /\ Return(p, ExceptionResp(DuplicateKey))
           ELSE /\ tx' = [tx EXCEPT ![p].users_ins = {user}]
                /\ loc' = [loc EXCEPT ![p].user = user]
                /\ pc' = [pc EXCEPT ![p] = "reg_commit_user"]
                /\ UNCHANGED <<req, out>>
        /\ UNCHANGED <<users, refresh_tokens, ticks, nreq, nfail,
                       google_enabled, db_configured, returned, now,
                       codecVars, tasksVars>>

\* the first conn.commit(), then create_jwt and create_refresh_token
RegCommitUser(p) ==
    /\ pc[p] = "reg_commit_user"
    /\ users' = users \cup tx[p].users_ins
    /\ tx' = [tx EXCEPT ![p] = NoTx]
    /\ loc' = [loc EXCEPT
                 ![p].access_token =
                     create_jwt(loc[p].user.id, loc[p].user.email, AccessTtlMinutes, now),
                 ![p].refresh_token = create_refresh_token]
    /\ pc' = [pc EXCEPT ![p] = "reg_insert_token"]
    /\ UNCHANGED <<refresh_tokens, req, out, ticks, nreq, nfail,
                   google_enabled, db_configured, returned, now, codecVars, tasksVars>>

\* INSERT INTO refresh_tokens
RegInsertToken(p) ==
    /\ pc[p] = "reg_insert_token"
    /\ tx' = [tx EXCEPT ![p].rt_ins =
                 {NewTokenRow(loc[p].user.id, loc[p].refresh_token, UnknownToken)}]
    /\ pc' = [pc EXCEPT ![p] = "reg_commit_token"]
    /\ UNCHANGED <<users, refresh_tokens, req, loc, out, ticks, nreq, nfail,
                   google_enabled, db_configured, returned, now, codecVars, tasksVars>>

Returned(kind, p) ==
    [kind |-> kind, user_id |-> loc[p].user.id, accessToken |-> loc[p].access_token,
     refreshToken |-> loc[p].refresh_token]

\* the second conn.commit() and the 201
RegCommitToken(p) ==
    /\ pc[p] = "reg_commit_token"
    /\ refresh_tokens' = CommitTokens(tx[p])
    /\ Return(p, TokenResp(201, loc[p].user, loc[p].access_token, loc[p].refresh_token))
    /\ returned' = returned \cup {Returned("register", p)}
    /\ UNCHANGED <<users, ticks, nreq, nfail,
                   google_enabled, db_configured, now, codecVars, tasksVars>>

(* ---------------------------- handler: login -------------------------- *)
\* a login check that forgets verify_password
LoginRefusedNoVerify(found, password) ==
    \/ found = {}
    \/ \E u \in found : u.password_hash = NoHash

\* not user or not user['password_hash'] or not verify_password(..)
LoginRefused(found, password) ==
    \/ found = {}
    \/ \E u \in found : u.password_hash = NoHash
    \/ \E u \in found : ~verify_password(password, u.password_hash)

InvalidCredentials == ErrorResp(401, "Invalid email or password")

\* the SELECT, the credential check, then create_jwt and create_refresh_token
Login(p, raw, password) ==
    LET email == NormalizeEmail(raw)
        found == SelectUserByEmail(email)
        r == [NoReq EXCEPT !.action = "login", !.email = raw, !.password = password]
    IN  /\ Enter(p)
        /\ db_configured
        /\ IF LoginRefused(found, password)
           THEN /\ EnterReturn(p, r, InvalidCredentials)
           ELSE /\ \E user \in found :
                      EnterProceed(p, r,
                          [user |-> user,
                           access_token |->
                               create_jwt(user.id, user.email, AccessTtlMinutes, now),
                           refresh_token |-> create_refresh_token],
                          "login_insert")
        /\ UNCHANGED <<users, refresh_tokens, tx, ticks, nfail,
                       google_enabled, db_configured, returned, now,
                       codecVars, tasksVars>>

LoginInsert(p) ==
    /\ pc[p] = "login_insert"
    /\ tx' = [tx EXCEPT ![p].rt_ins =
                 {NewTokenRow(loc[p].user.id, loc[p].refresh_token, UnknownToken)}]
    /\ pc' = [pc EXCEPT ![p] = "login_commit"]
    /\ UNCHANGED <<users, refresh_tokens, req, loc, out, ticks, nreq, nfail,
                   google_enabled, db_configured, returned, now, codecVars, tasksVars>>

LoginCommit(p) ==
    /\ pc[p] = "login_commit"
    /\ refresh_tokens' = CommitTokens(tx[p])
    /\ Return(p, TokenResp(200, loc[p].user, loc[p].access_token, loc[p].refresh_token))
    /\ returned' = returned \cup {Returned("login", p)}
    /\ UNCHANGED <<users, ticks, nreq, nfail,
                   google_enabled, db_configured, now, codecVars, tasksVars>>

(* --------------------------- handler: refresh ------------------------- *)
InvalidOrExpired == ErrorResp(401, "Invalid or expired refresh token")

\* the SELECT, then create_jwt and create_refresh_token
Refresh(p, token) ==
    LET found == SelectLiveToken(token)
        r == [NoReq EXCEPT !.action = "refresh", !.refreshToken = token]
    IN  /\ Enter(p)
        /\ db_configured
        /\ IF found = {}
           THEN /\ EnterReturn(p, r, InvalidOrExpired)
           ELSE /\ \E row \in found : \E user \in {u \in users : u.id = row.user_id} :
                      EnterProceed(p, r,
                          [user |-> user,
                           access_token |->
                               create_jwt(row.user_id, user.email, AccessTtlMinutes, now),
                           refresh_token |-> create_refresh_token],
                          "refresh_update")
        /\ UNCHANGED <<users, refresh_tokens, tx, ticks, nfail,
                       google_enabled, db_configured, returned, now,
                       codecVars, tasksVars>>

\* UPDATE refresh_tokens SET revoked = true WHERE token = %s
\* (waits while another open transaction holds the row)
RefreshUpdate(p) ==
    /\ pc[p] = "refresh_update"
    /\ RowLockFree(p, req[p].refreshToken)
    /\ tx' = [tx EXCEPT ![p].rt_upd = {req[p].refreshToken}]
    /\ pc' = [pc EXCEPT ![p] = "refresh_insert"]
    /\ UNCHANGED <<users, refresh_tokens, req, loc, out, ticks, nreq, nfail,
                   google_enabled, db_configured, returned, now, codecVars, tasksVars>>

\* INSERT INTO refresh_tokens: the successor
RefreshInsert(p) ==
    /\ pc[p] = "refresh_insert"
    /\ tx' = [tx EXCEPT ![p].rt_ins =
                 {NewTokenRow(loc[p].user.id, loc[p].refresh_token, req[p].refreshToken)}]
    /\ pc' = [pc EXCEPT ![p] = "refresh_commit"]
    /\ UNCHANGED <<users, refresh_tokens, req, loc, out, ticks, nreq, nfail,
                   google_enabled, db_configured, returned, now, codecVars, tasksVars>>

\* conn.commit() and the 200 (no user object in the body)
RefreshCommit(p) ==
    /\ pc[p] = "refresh_commit"
    /\ refresh_tokens' = CommitTokens(tx[p])
    /\ Return(p, TokenResp(200, NoUser, loc[p].access_token, loc[p].refresh_token))
    /\ UNCHANGED <<users, ticks, nreq, nfail,
                   google_enabled, db_configured, returned, now, codecVars, tasksVars>>

(* ------------------------- handler: except branch --------------------- *)
\* where the next thing the handler does is a statement or a commit
AtStorage == {"reg_insert_user", "reg_commit_user", "reg_insert_token", "reg_commit_token",
              "login_insert", "login_commit",
              "refresh_update", "refresh_insert", "refresh_commit"}

\* the statement or commit raises: the except branch answers 500 with str(e),
\* and the connection goes away with whatever it had not committed
StorageFailure(p) ==
    /\ pc[p] \in AtStorage
    /\ nfail < MaxFailures
    /\ nfail' = nfail + 1
    /\ Return(p, ExceptionResp(ConnectionLost))
    /\ UNCHANGED <<users, refresh_tokens, ticks, nreq,
                   google_enabled, db_configured, returned, now, codecVars, tasksVars>>

(* -------------------------------- clock ------------------------------- *)
ClockSteps == {TicksPerSecond, RefreshTtlTicks}

Tick(d) ==
    /\ ticks < MaxTicks
    /\ ticks' = ticks + 1
    /\ now' = now + d
    /\ UNCHANGED <<users, refresh_tokens, pc, req, loc, tx, out, nreq, nfail,
                   google_enabled, db_configured, returned, codecVars, tasksVars>>

(* --------------------------- specification ---------------------------- *)
NoIssue == [user_id |-> 0, email |-> <<>>, ttl |-> 0, at |-> 0]
NoVerdict == [checked |-> FALSE, ok |-> FALSE, claims |-> NoClaims, decoded |-> FALSE,
              at |-> 0]

CodecOff ==
    /\ jwt_pc = "off"
    /\ jwt_in = NoIssue
    /\ jwt_token = NoToken
    /\ jwt_out = NoVerdict

\* the tasks handler is not called
NoTaskParams == [resource |-> "", filters |-> {}, title |-> <<>>, id |-> 0]
NoTaskReq == [method |-> "", token |-> NoToken, params |-> NoTaskParams]
NoTaskResp == [status |-> 0, error |-> ""]

TasksOff ==
    /\ t_pc = "off"
    /\ t_req = NoTaskReq
    /\ t_user_id = 0
    /\ t_conn = FALSE
    /\ t_sql = <<>>
    /\ t_resp = NoTaskResp

AuthStart ==
    /\ refresh_tokens = {[token |-> AliceToken, user_id |-> AliceUser.id,
                           expires_at |-> RefreshTtlTicks, revoked |-> FALSE,
                           redeems |-> UnknownToken]}
    /\ pc = [p \in Procs |-> "idle"]
    /\ req = [p \in Procs |-> NoReq]
    /\ loc = [p \in Procs |-> NoLoc]
    /\ tx = [p \in Procs |-> NoTx]
    /\ out = [req |-> NoReq, resp |-> NoResp]
    /\ ticks = 0
    /\ nreq = 0
    /\ nfail = 0
    /\ returned = {[kind |-> "register", user_id |-> AliceUser.id,
                     accessToken |-> create_jwt(AliceUser.id, AliceUser.email,
                                                AccessTtlMinutes, 0),
                     refreshToken |-> AliceToken]}

\* the store after one registration at time 0, beside a federated-only account
Init ==
    /\ AuthStart
    /\ users = {FedUser, AliceUser}
    /\ google_enabled \in BOOLEAN
    /\ db_configured \in BOOLEAN
    /\ now = 0
    /\ CodecOff
    /\ TasksOff

\* what a client can present: a token of the store, or something else
KnownTokens == {r.token : r \in refresh_tokens} \cup {UnknownToken}

Next ==
    \/ \E p \in Procs, a \in {"login", "refresh", "google_login"} : NoConnection(p, a)
    \/ \E p \in Procs : GoogleLogin(p)
    \/ \E p \in Procs, a \in {"google_login", ""} : InvalidAction(p, a)
    \/ \E p \in Procs, e \in RegisterEmails, w \in Passwords, f \in FullNames : Register(p, e, w, f)
    \/ \E p \in Procs, s \in Salts : RegInsertUser(p, s)
    \/ \E p \in Procs : RegCommitUser(p)
    \/ \E p \in Procs : RegInsertToken(p)
    \/ \E p \in Procs : RegCommitToken(p)
    \/ \E p \in Procs, e \in LoginEmails, w \in Passwords : Login(p, e, w)
    \/ \E p \in Procs : LoginInsert(p)
    \/ \E p \in Procs : LoginCommit(p)
    \/ \E p \in Procs, t \in KnownTokens : Refresh(p, t)
    \/ \E p \in Procs : RefreshUpdate(p)
    \/ \E p \in Procs : RefreshInsert(p)
    \/ \E p \in Procs : RefreshCommit(p)
    \/ \E p \in Procs : StorageFailure(p)
    \/ \E d \in ClockSteps : Tick(d)

Spec == Init /\ [][Next]_vars

(* ------------------- the token codec on its own ----------------------- *)
CodecUserIds == {1, 2}
CodecEmails == {NormalizeEmail(AliceEmailRaw), FedEmail}
CodecTtlMinutes == {1, AccessTtlMinutes}
CodecClockSteps == {1, TicksPerSecond, 59 * TicksPerSecond,
                    59 * SecondsPerMinute * TicksPerSecond}
WrongSecret == "guessed-secret"

\* create_jwt(user_id, email, expires_minutes) called at the current time
CodecIssue(user_id, email, ttl) ==
    /\ jwt_pc = "ready"
    /\ jwt_token' = create_jwt(user_id, email, ttl, now)
    /\ jwt_in' = [user_id |-> user_id, email |-> email, ttl |-> ttl, at |-> now]
    /\ jwt_pc' = "issued"
    /\ UNCHANGED <<jwt_out, now, authVars, tasksVars>>

\* somebody replaces the payload segment of the issued token
CodecTamperPayload(claims) ==
    /\ jwt_pc = "issued"
    /\ PayloadSegment(claims) # jwt_token[2]
    /\ jwt_token' = [jwt_token EXCEPT ![2] = PayloadSegment(claims)]
    /\ jwt_pc' = "payload_changed"
    /\ jwt_out' = NoVerdict
    /\ UNCHANGED <<jwt_in, now, authVars, tasksVars>>

\* somebody replaces the signature segment of the issued token
CodecTamperSignature(signature) ==
    /\ jwt_pc = "issued"
    /\ signature # jwt_token[3]
    /\ jwt_token' = [jwt_token EXCEPT ![3] = signature]
    /\ jwt_pc' = "signature_changed"
    /\ jwt_out' = NoVerdict
    /\ UNCHANGED <<jwt_in, now, authVars, tasksVars>>

\* verify_jwt(token) called at the current time
CodecVerify ==
    /\ jwt_pc \in {"issued", "payload_changed", "signature_changed"}
    /\ LET v == verify_jwt(jwt_token, now)
       IN  jwt_out' = [checked |-> TRUE, ok |-> v.ok, claims |-> v.claims,
                       decoded |-> v.decoded, at |-> now]
    /\ UNCHANGED <<jwt_pc, jwt_in, jwt_token, now, authVars, tasksVars>>

\* time passes once the token is out; a verdict belongs to its moment
CodecTick(d) ==
    /\ jwt_pc \in {"issued", "payload_changed", "signature_changed"}
    /\ ticks < MaxCodecTicks
    /\ ticks' = ticks + 1
    /\ now' = now + d
    /\ jwt_out' = NoVerdict
    /\ UNCHANGED <<users, refresh_tokens, pc, req, loc, tx, out, nreq, nfail,
                   google_enabled, db_configured, returned, jwt_pc, jwt_in, jwt_token,
                   tasksVars>>

\* the payloads somebody may put in place of the issued one
ForgedClaims ==
    IF jwt_pc # "issued" THEN {}
    ELSE {[user_id |-> u, email |-> jwt_in.email, exp |-> jwt_token[2].data.exp + x] :
            u \in CodecUserIds, x \in {0, AccessTtlMinutes * SecondsPerMinute}}

\* the signatures somebody may put in place of the issued one: that of another
\* token of this server, or one made with a guessed secret
ForgedSignatures ==
    IF jwt_pc # "issued" THEN {}
    ELSE {SignatureSegment(jwt_token[1], PayloadSegment(c), AUTH_JWT_SECRET) :
            c \in ForgedClaims}
         \cup {SignatureSegment(jwt_token[1], jwt_token[2], WrongSecret)}

CodecInit ==
    /\ AuthStart
    /\ users = {FedUser, AliceUser}
    /\ google_enabled = FALSE
    /\ db_configured = FALSE
    /\ now \in 0..(TicksPerSecond - 1)
    /\ jwt_pc = "ready"
    /\ jwt_in = NoIssue
    /\ jwt_token = NoToken
    /\ jwt_out = NoVerdict
    /\ TasksOff

CodecNext ==
    \/ \E u \in CodecUserIds, e \in CodecEmails, m \in CodecTtlMinutes : CodecIssue(u, e, m)
    \/ \E c \in ForgedClaims : CodecTamperPayload(c)
    \/ \E g \in ForgedSignatures : CodecTamperSignature(g)
    \/ CodecVerify
    \/ \E d \in CodecClockSteps : CodecTick(d)

SpecCodec == CodecInit /\ [][CodecNext]_vars

(* ------------------------- the tasks handler -------------------------- *)
\* str(n), one character per element
RECURSIVE Digits(_)
Digits(n) ==
    LET d == <<"0","1","2","3","4","5","6","7","8","9">>
    IN  IF n < 10 THEN <<d[n + 1]>> ELSE Digits(n \div 10) \o <<d[(n % 10) + 1]>>

\* str.replace(old, new): left to right, matches do not overlap
RECURSIVE Replace(_, _, _)
Replace(str, old, new) ==
    IF Len(str) < Len(old) THEN str
    ELSE IF SubSeq(str, 1, Len(old)) = old
    THEN new \o Replace(SubSeq(str, Len(old) + 1, Len(str)), old, new)
    ELSE <<str[1]>> \o Replace(Tail(str), old, new)

\* sep.join(strs)
RECURSIVE Join(_, _)
Join(strs, sep) ==
    IF strs = <<>> THEN <<>>
    ELSE IF Len(strs) = 1 THEN strs[1]
    ELSE strs[1] \o sep \o Join(Tail(strs), sep)

\* the optional filters of GET resource=tasks, in the order the code reads
\* them; text without '$', '%' or digits is kept in one piece
FilterOrder == <<"status", "projectId", "priority", "quadrant">>
FilterNames == {FilterOrder[i] : i \in 1..Len(FilterOrder)}
FilterColumn(f) ==
    CASE f = "status" -> "status = "
      [] f = "projectId" -> "project_id = "
      [] f = "priority" -> "priority = "
      [] f = "quadrant" -> "eisenhower_quadrant = "
FilterValue(f) ==
    CASE f = "status" -> "inbox"
      [] f = "projectId" -> 7
      [] f = "priority" -> "high"
      [] f = "quadrant" -> "urgent_important"

\* the four "if <param>: filters.append(f".. = ${len(values) + 1}");
\* values.append(..)" blocks, from the i-th on
RECURSIVE BuildFilters(_, _, _, _)
BuildFilters(i, given, filters, values) ==
    IF i > Len(FilterOrder) THEN [filters |-> filters, values |-> values]
    ELSE IF FilterOrder[i] \in given
    THEN BuildFilters(i + 1, given,
             Append(filters, <<FilterColumn(FilterOrder[i]), "$">> \o Digits(Len(values) + 1)),
             Append(values, FilterValue(FilterOrder[i])))
    ELSE BuildFilters(i + 1, given, filters, values)

Placeholder == <<"%", "s">>

\* where_clause and values as passed to cursor.execute
WhereClause(user_id, given) ==
    LET b == BuildFilters(1, given, <<>>, <<user_id>>)
        joined == Join(b.filters, <<" AND ">>)
        r0 == Replace(joined, <<"$">>, Placeholder)
        r1 == Replace(r0, Placeholder \o <<"1">>, Placeholder)
        r2 == Replace(r1, Placeholder \o <<"2">>, Placeholder)
        r3 == Replace(r2, Placeholder \o <<"3">>, Placeholder)
        r4 == Replace(r3, Placeholder \o <<"4">>, Placeholder)
    IN  [where  |-> <<"user_id = ">> \o Placeholder
                       \o (IF b.filters # <<>> THEN <<" AND ">> \o r4 ELSE <<>>),
         values |-> b.values]

\* where the clause holds a %s
Placeholders(where) ==
    {i \in 1..(Len(where) - 1) : SubSeq(where, i, i + 1) = Placeholder}
\* a %s with a digit left right after it
LeftoverDigits(where) ==
    {i \in Placeholders(where) : i + 2 <= Len(where) /\ where[i + 2] \in DigitChars}

\* cursor.execute(query, values) raises: the driver when the placeholders and
\* the values do not match in number, the server when the text it gets after
\* substitution is no SQL
ArgumentMismatch == "not all arguments converted during string formatting"
SyntaxError == "syntax error at or near"
ExecuteRaises(q) ==
    \/ Cardinality(Placeholders(q.where)) # Len(q.values)
    \/ LeftoverDigits(q.where) # {}
ExecuteError(q) ==
    IF Cardinality(Placeholders(q.where)) # Len(q.values) THEN ArgumentMismatch
    ELSE SyntaxError

\* a statement with nothing to go wrong in its placeholders
Statement(name) == [name |-> name, where |-> <<>>, values |-> <<>>]

TasksReturn(status, error) ==
    /\ t_resp' = [status |-> status, error |-> error]
    /\ t_pc' = "idle"

\* an event arrives
TasksRequest(method, token, params) ==
    /\ t_pc = "idle"
    /\ t_pc' = "entry"
    /\ t_req' = [method |-> method, token |-> token, params |-> params]
    /\ t_user_id' = 0
    /\ t_conn' = FALSE
    /\ t_sql' = <<>>
    /\ t_resp' = NoTaskResp
    /\ UNCHANGED <<authVars, now, codecVars>>

\* OPTIONS, then verify_jwt on the x-auth-token header
TasksEntry ==
    /\ t_pc = "entry"
    /\ IF t_req.method = "OPTIONS"
       THEN TasksReturn(200, "") /\ UNCHANGED t_user_id
       ELSE LET user_data == verify_jwt(t_req.token, now)
            IN  IF ~user_data.ok
                THEN TasksReturn(401, "Unauthorized") /\ UNCHANGED t_user_id
                ELSE /\ t_user_id' = user_data.claims.user_id
                     /\ t_pc' = "connect"
                     /\ UNCHANGED t_resp
    /\ UNCHANGED <<t_req, t_conn, t_sql, authVars, now, codecVars>>

\* get_db_connection() and conn.cursor()
TasksConnect ==
    /\ t_pc = "connect"
    /\ IF ~db_configured
       THEN TasksReturn(500, "Database connection failed") /\ UNCHANGED t_conn
       ELSE t_conn' = TRUE /\ t_pc' = "dispatch" /\ UNCHANGED t_resp
    /\ UNCHANGED <<t_req, t_user_id, t_sql, authVars, now, codecVars>>

\* method == 'GET'
TasksGet ==
    /\ t_pc = "dispatch"
    /\ t_req.method = "GET"
    /\ IF t_req.params.resource = "tasks"
       THEN LET q == [name |-> "SELECT tasks"]
                       @@ WhereClause(t_user_id, t_req.params.filters)
            IN  /\ t_sql' = Append(t_sql, q)
                /\ IF ExecuteRaises(q) THEN TasksReturn(500, ExecuteError(q))
                   ELSE TasksReturn(200, "")
       ELSE IF t_req.params.resource \in {"projects", "contexts"}
       THEN /\ t_sql' = Append(t_sql, Statement("SELECT " \o t_req.params.resource))
            /\ TasksReturn(200, "")
       ELSE /\ TasksReturn(405, "Method not allowed")
            /\ UNCHANGED t_sql
    /\ UNCHANGED <<t_req, t_user_id, t_conn, authVars, now, codecVars>>

\* method == 'POST': the title (or name) must not be blank
TasksPost ==
    /\ t_pc = "dispatch"
    /\ t_req.method = "POST"
    /\ IF t_req.params.resource \in {"task", "project", "context"}
       THEN IF Strip(t_req.params.title) = <<>>
            THEN /\ TasksReturn(400, "Title or name is required")
                 /\ UNCHANGED t_sql
            ELSE /\ t_sql' = t_sql \o <<Statement("INSERT " \o t_req.params.resource),
                                       Statement("COMMIT")>>
                 /\ TasksReturn(201, "")
       ELSE /\ TasksReturn(405, "Method not allowed")
            /\ UNCHANGED t_sql
    /\ UNCHANGED <<t_req, t_user_id, t_conn, authVars, now, codecVars>>

\* method == 'PUT': the task may or may not be a row of this user
TasksPut(found) ==
    /\ t_pc = "dispatch"
    /\ t_req.method = "PUT"
    /\ IF t_req.params.id = 0
       THEN /\ TasksReturn(400, "Task ID is required")
            /\ UNCHANGED t_sql
       ELSE IF ~found
       THEN /\ t_sql' = Append(t_sql, Statement("UPDATE tasks"))
            /\ TasksReturn(404, "Task not found")
       ELSE /\ t_sql' = t_sql \o <<Statement("UPDATE tasks"), Statement("COMMIT")>>
            /\ TasksReturn(200, "")
    /\ UNCHANGED <<t_req, t_user_id, t_conn, authVars, now, codecVars>>

\* any other method falls through to the 405
TasksNotAllowed ==
    /\ t_pc = "dispatch"
    /\ t_req.method \notin {"GET", "POST", "PUT"}
    /\ TasksReturn(405, "Method not allowed")
    /\ UNCHANGED <<t_req, t_user_id, t_conn, t_sql, authVars, now, codecVars>>

\* a statement raises: except Exception as e, 500 with str(e)
TasksStorageFailure ==
    /\ t_pc = "dispatch"
    /\ t_req.method \in {"GET", "POST", "PUT"}
    /\ t_sql' = Append(t_sql, Statement("raised"))
    /\ TasksReturn(500, ConnectionLost)
    /\ UNCHANGED <<t_req, t_user_id, t_conn, authVars, now, codecVars>>

\* the tokens a client may send: none, one as issued to Alice at time 0 for one
\* minute, and that one cut short, with another payload, or signed with a
\* guessed secret
IssuedToken == create_jwt(AliceUser.id, AliceUser.email, 1, 0)
MalformedToken == SubSeq(IssuedToken, 1, 2)
ForgedPayloadToken ==
    [IssuedToken EXCEPT ![2] = PayloadSegment([user_id |-> FedUser.id,
                                                email |-> FedUser.email,
                                                exp |-> SecondsPerDay])]
ForgedSignatureToken ==
    [IssuedToken EXCEPT ![3] = SignatureSegment(IssuedToken[1], IssuedToken[2], WrongSecret)]
TaskTokens == {NoToken, IssuedToken, MalformedToken, ForgedPayloadToken,
               ForgedSignatureToken}
TaskMethods == {"OPTIONS", "GET", "POST", "PUT", "DELETE"}
BlankTitle == <<" ">>
TaskParams(method) ==
    CASE method = "GET" ->
           {[NoTaskParams EXCEPT !.resource = "tasks", !.filters = f] :
               f \in SUBSET FilterNames}
           \cup {[NoTaskParams EXCEPT !.resource = r] : r \in {"projects", "contexts", "nosuch"}}
      [] method = "POST" ->
           {[NoTaskParams EXCEPT !.resource = r, !.title = t] :
               r \in {"task", "project", "context", "nosuch"}, t \in {BlankTitle, <<"x">>}}
      [] method = "PUT" -> {[NoTaskParams EXCEPT !.id = i] : i \in {0, 1}}
      [] OTHER -> {NoTaskParams}

\* the moments at which the handler is called: at issue, and around the exp of
\* the issued token
TaskTimes ==
    {0, SecondsPerMinute * TicksPerSecond - 1, SecondsPerMinute * TicksPerSecond,
     SecondsPerMinute * TicksPerSecond + 1}

TasksInit ==
    /\ AuthStart
    /\ users = {FedUser, AliceUser}
    /\ google_enabled = FALSE
    /\ db_configured \in BOOLEAN
    /\ now \in TaskTimes
    /\ CodecOff
    /\ t_pc = "idle"
    /\ t_req = NoTaskReq
    /\ t_user_id = 0
    /\ t_conn = FALSE
    /\ t_sql = <<>>
    /\ t_resp = NoTaskResp

TasksNext ==
    \/ \E m \in TaskMethods, k \in TaskTokens : \E a \in TaskParams(m) : TasksRequest(m, k, a)
    \/ TasksEntry
    \/ TasksConnect
    \/ TasksGet
    \/ TasksPost
    \/ \E found \in BOOLEAN : TasksPut(found)
    \/ TasksNotAllowed
    \/ TasksStorageFailure

SpecTasks == TasksInit /\ [][TasksNext]_vars

(* ======================= properties: refresh ========================== *)
\* every 200 a refresh returned, as <<token presented, token returned>>: the
\* successor row is committed by the step that returns the 200
Redemptions ==
    {<<r.redeems, r.token>> : r \in {x \in refresh_tokens : x.redeems # UnknownToken}}

Redeemed(token) == \E d \in Redemptions : d[1] = token

\* the token is in the store, not revoked and not yet expired
LiveInStore(token) ==
    \E r \in refresh_tokens : r.token = token /\ ~r.revoked /\ r.expires_at > now

\* this step enters the handler with a new request, and the handler gets a
\* connection to the store
Started == nreq' = nreq + 1 /\ db_configured
\* the connection that went on to a statement in this step, if any
Proceeding == {p \in Procs : pc[p] = "idle" /\ pc'[p] # "idle"}
StartedReq == IF Proceeding # {} THEN req'[CHOOSE p \in Proceeding : TRUE] ELSE out'.req
\* this step enters the handler and returns at once
ReturnedAtOnce == Started /\ Proceeding = {}
\* the connections whose handler returns in this step, after earlier steps
Returning == {p \in Procs : pc[p] # "idle" /\ pc'[p] = "idle"}

\* C1: of the refresh requests that present one token, concurrent or not, at
\* most one returns 200 with a new pair.
C1_AtMostOneRefreshSucceeds ==
    \A a \in Redemptions : \A b \in Redemptions : a[1] = b[1] => a = b

C3_RevokedHasOneSuccessor ==
    \A r \in refresh_tokens :
        r.revoked => Cardinality({x \in refresh_tokens : x.redeems = r.token}) = 1

\* C4: the access token and the refresh token a login returns both differ from
\* those of the same user's registration and of any other login of that user.
C4_LoginPairFresh ==
    \A a \in returned : \A b \in returned :
        (a # b /\ a.user_id = b.user_id /\ "login" \in {a.kind, b.kind})
            => (a.accessToken # b.accessToken /\ a.refreshToken # b.refreshToken)

\* C8: with the store connected, a refresh goes on to rotate only if the
\* presented token is in the store, not revoked and not expired; otherwise it
\* returns 401 at once and no row of refresh_tokens or users is written,
\* committed or not; and every 200 of a refresh comes from a request that
\* passed that lookup.
C8_RefreshNeedsLiveToken ==
    [][ /\ (Started /\ StartedReq.action = "refresh")
            => IF LiveInStore(StartedReq.refreshToken)
               THEN Proceeding # {}
               ELSE /\ ReturnedAtOnce
                    /\ out'.resp = [status |-> 401,
                                    error |-> "Invalid or expired refresh token",
                                    user |-> NoUser, accessToken |-> NoToken,
                                    refreshToken |-> UnknownToken]
                    /\ refresh_tokens' = refresh_tokens
                    /\ users' = users
                    /\ tx' = tx
        /\ (ReturnedAtOnce /\ out'.req.action = "refresh") => out'.resp.status # 200
        /\ \A p \in Returning :
              (out'.req.action = "refresh" /\ out'.resp.status = 200)
                  => pc[p] = "refresh_commit"
      ]_vars

\* a refresh of an expired, never revoked token of the store got 401
C8_Witness ==
    /\ out.req.action = "refresh"
    /\ out.resp.status = 401
    /\ \E r \in refresh_tokens :
          r.token = out.req.refreshToken /\ ~r.revoked /\ r.expires_at <= now

\* C9: no row of refresh_tokens is ever removed or changed except that its
\* revoked flag goes from false to true, and that happens only in the step in
\* which a refresh presenting that token returns 200.
C9_RevokedMonotonic ==
    [][ \A r \in refresh_tokens :
          \E x \in refresh_tokens' :
             /\ x.token = r.token
             /\ x.user_id = r.user_id
             /\ x.expires_at = r.expires_at
             /\ r.revoked => x.revoked
             /\ x.revoked # r.revoked =>
                   /\ out'.req.action = "refresh"
                   /\ out'.req.refreshToken = r.token
                   /\ out'.resp.status = 200
                   /\ \E p \in Returning : req[p] = out'.req
      ]_vars

\* a login committed its token while a revoked row stayed revoked
C9_Witness ==
    /\ out.req.action = "login"
    /\ out.resp.status = 200
    /\ \E r \in refresh_tokens : r.revoked
    /\ \E r \in refresh_tokens : r.token = out.resp.refreshToken /\ ~r.revoked

(* ======================== properties: login =========================== *)
\* the three ways a login fails, read off the committed users
NoSuchUser(r) == ~\E u \in users : u.email = NormalizeEmail(r.email)
HashAbsent(r) == \E u \in users : u.email = NormalizeEmail(r.email) /\ u.password_hash = NoHash
PasswordWrong(r) ==
    \E u \in users : /\ u.email = NormalizeEmail(r.email)
                     /\ u.password_hash # NoHash
                     /\ u.password_hash # hash_password(r.password, u.password_hash[1])

\* C10: with the store connected, a login for which there is no user, or whose
\* user has no password hash, or whose password does not verify, returns one
\* and the same 401 response, with no token in it, and inserts no refresh
\* token.
C10_LoginFailuresAlike ==
    [][ (Started /\ StartedReq.action = "login"
                 /\ (NoSuchUser(StartedReq) \/ HashAbsent(StartedReq)
                        \/ PasswordWrong(StartedReq)))
          => /\ ReturnedAtOnce
             /\ out'.resp = [status |-> 401, error |-> "Invalid email or password",
                             user |-> NoUser, accessToken |-> NoToken,
                             refreshToken |-> UnknownToken]
             /\ refresh_tokens' = refresh_tokens
             /\ tx' = tx
      ]_vars

\* a login to the federated-only account was refused
C10_Witness ==
    /\ out.req.action = "login"
    /\ out.resp.status = 401
    /\ HashAbsent(out.req)

(* ====================== properties: register ========================== *)
\* the e-mails for which a register call has returned 201
Registered == {u.email : u \in {x \in users : \E a \in returned :
                                     a.kind = "register" /\ a.user_id = x.id}}

\* the same e-mail after trimming and lower-casing
SameEmail(a, b) == Lower(Strip(a)) = Lower(Strip(b))

\* C11 as stated: with the store connected, a register call started after a
\* register of the same e-mail (same after trimming and lower-casing) has
\* returned 201 returns 409 at once and writes no row of users or
\* refresh_tokens, committed or not; and no two rows of users ever hold the
\* same normalized e-mail.
C11_DuplicateRegisterRefused ==
    [][ /\ (Started /\ StartedReq.action = "register"
                    /\ \E e \in Registered : SameEmail(e, StartedReq.email))
            => /\ ReturnedAtOnce
               /\ out'.resp.status = 409
               /\ out'.resp.accessToken = NoToken
               /\ out'.resp.refreshToken = UnknownToken
               /\ users' = users
               /\ refresh_tokens' = refresh_tokens
               /\ tx' = tx
        /\ users' # users
            => \A u \in users' : \A v \in users' : SameEmail(u.email, v.email) => u = v
      ]_vars

\* C11 as amended: with the store connected, a register call started after a
\* register of the same e-mail (same after trimming and lower-casing) has
\* returned 201 returns at once, 409 when its password has at least six
\* characters and 400 when it is shorter (validation comes before the
\* uniqueness check), and in both cases writes no row of users or
\* refresh_tokens; and no two rows of users ever hold the same normalized
\* e-mail.
C11_DuplicateRegisterRefusedOrInvalid ==
    [][ /\ (Started /\ StartedReq.action = "register"
                    /\ \E e \in Registered : SameEmail(e, StartedReq.email))
            => /\ ReturnedAtOnce
               /\ out'.resp.status =
                     IF Len(StartedReq.password) >= MinPasswordLen THEN 409 ELSE 400
               /\ out'.resp.accessToken = NoToken
               /\ out'.resp.refreshToken = UnknownToken
               /\ users' = users
               /\ refresh_tokens' = refresh_tokens
               /\ tx' = tx
        /\ users' # users
            => \A u \in users' : \A v \in users' : SameEmail(u.email, v.email) => u = v
      ]_vars

\* Bob registered during the behaviour, and a second register of his e-mail
\* got 409
C11_Witness ==
    /\ out.req.action = "register"
    /\ out.req.email = BobEmailRaw
    /\ out.resp.status = 409
    /\ \E e \in Registered : SameEmail(e, BobEmailRaw)

\* this step enters the handler with a new request, connection or not
Entered == nreq' = nreq + 1

\* C12: every google_login request is answered 501 when the federated-login
\* flag is enabled and 400 when it is disabled, in every state, a missing
\* database connection included; never 500.
C12_GoogleLoginNotImplemented ==
    [][ (Entered /\ out'.req.action = "google_login" /\ out' # out)
          => out'.resp.status = IF google_enabled THEN 501 ELSE 400
      ]_vars

\* the connections whose handler ends in the except branch in this step
Raising ==
    {p \in Returning : nfail' = nfail + 1 \/ pc[p] = "reg_insert_user"}

\* C14: whenever an exception is raised inside the handler, the response is
\* 500 with a body that holds no text of the exception.
C14_ExceptionBodyGeneric ==
    [][ \A p \in Raising :
          /\ out'.resp.status = 500
          /\ out'.resp.error \notin ExceptionTexts
      ]_vars

\* C15: whenever a register call ends with a response other than 201, the
\* call has committed no row of users.
C15_RegisterAllOrNothing ==
    [][ \A p \in Returning :
          (req[p].action = "register" /\ out'.resp.status # 201)
             => ~\E u \in users' : loc[p].user # NoUser /\ u.id = loc[p].user.id
      ]_vars

(* ==================== properties: tasks handler ======================= *)
\* a token that is missing or malformed (not three segments), forged (its
\* signature is not the one recomputed from header.payload and the secret), or
\* expired (its exp is not greater than the current time)
BadToken(token, t) ==
    \/ Len(token) # 3
    \/ token[3] # SignatureSegment(token[1], token[2], TASKS_JWT_SECRET)
    \/ token[2].data.exp * TicksPerSecond <= t

\* C13: every non-OPTIONS request whose access token is missing, malformed,
\* forged or expired is answered 401 by the first step of the handler, with no
\* database connection opened and no statement executed.
C13_UnauthorizedBeforeStorage ==
    [][ (t_pc = "entry" /\ t_req.method # "OPTIONS" /\ BadToken(t_req.token, now))
          => /\ t_pc' = "idle"
             /\ t_resp'.status = 401
             /\ ~t_conn'
             /\ t_sql' = <<>>
      ]_vars

\* C16: for every subset of the four optional filters, the WHERE clause passed
\* to cursor.execute holds one plain %s per bound value: no digit is left
\* right after a placeholder and the placeholders are as many as the values.
C16_PlaceholdersPlain ==
    \A i \in 1..Len(t_sql) :
        t_sql[i].name = "SELECT tasks"
            => /\ LeftoverDigits(t_sql[i].where) = {}
               /\ Cardinality(Placeholders(t_sql[i].where)) = Len(t_sql[i].values)

(* ===================== properties: token codec ======================== *)
\* the issued token, as issued, has been verified at the current time
VerifiedAsIssued == jwt_pc = "issued" /\ jwt_out.checked

\* C5: a correctly signed token is accepted only while its exp is strictly
\* greater than the current time; from exp on (exp itself included) it is
\* rejected.
C5_RejectedFromExpOn ==
    VerifiedAsIssued =>
        (jwt_out.ok <=> jwt_token[2].data.exp * TicksPerSecond > jwt_out.at)

\* C6: a token made by create_jwt at time t with ttl minutes is accepted at
\* every time before t + ttl, with the user id and email it was made for.
C6_ValidUntilTtl ==
    (VerifiedAsIssued
        /\ jwt_out.at < jwt_in.at + jwt_in.ttl * SecondsPerMinute * TicksPerSecond)
    => /\ jwt_out.ok
       /\ jwt_out.claims.user_id = jwt_in.user_id
       /\ jwt_out.claims.email = jwt_in.email

\* C7: a token whose payload segment or signature segment was changed is
\* rejected at every time, and no token whose signature differs from the one
\* recomputed from header.payload and the secret gets its payload decoded or
\* its claims returned.
C7_TamperedRejected ==
    /\ (jwt_out.checked /\ jwt_pc \in {"payload_changed", "signature_changed"})
          => (~jwt_out.ok /\ jwt_out.claims = NoClaims)
    /\ (jwt_out.checked
          /\ jwt_token[3] # SignatureSegment(jwt_token[1], jwt_token[2], TASKS_JWT_SECRET))
          => (~jwt_out.ok /\ ~jwt_out.decoded /\ jwt_out.claims = NoClaims)

\* a token with a changed payload was verified, and refused, while the token
\* as issued had not yet expired
C7_Witness ==
    /\ jwt_pc = "payload_changed"
    /\ jwt_out.checked
    /\ ~jwt_out.ok
    /\ jwt_out.at + TicksPerSecond
          < jwt_in.at + jwt_in.ttl * SecondsPerMinute * TicksPerSecond

====
